---- MODULE Spec2Model ----
(***************************************************************************)
(* Predict Perfect backend (src/server.js): the two relay handlers         *)
(* POST /generate-questions and POST /auto-score, the upcoming-week window *)
(* computation, parseOptions, and the extraction of JSON from the          *)
(* provider's text.                                                        *)
(*                                                                         *)
(* Text is a sequence of characters.  A character is a one-character       *)
(* string, except that a few words the code or JSON treat as a unit        *)
(* ("results", "questions", "question_index", "json", "null", "true",      *)
(* "false", and the code fence of three backticks, written "<fence>")     *)
(* are single elements of the sequence.  The texts drawn below contain no  *)
(* backslash, "." or exponent, so JSON escapes and fractions never arise.  *)
(***************************************************************************)
EXTENDS Integers, Sequences, FiniteSets, TLC

\* ------------------------------------------------------------------------
\* JavaScript / JSON values

Quote == "\""
Fence == "<fence>"
JsonWs == {" ", "\n"}
Digits == {"0", "1", "2", "3", "4", "5", "6", "7", "8", "9"}
Literals == {"null", "true", "false"}

DigitVal(c) ==
  CASE c = "0" -> 0 [] c = "1" -> 1 [] c = "2" -> 2 [] c = "3" -> 3
    [] c = "4" -> 4 [] c = "5" -> 5 [] c = "6" -> 6 [] c = "7" -> 7
    [] c = "8" -> 8 [] OTHER -> 9

\* A value: t is its type; n a number's value or a boolean's (1 = true);
\* s a string's characters; k and a an object's keys and values in insertion
\* order; a an array's elements.
JVal(t, n, s, k, a) == [t |-> t, n |-> n, s |-> s, k |-> k, a |-> a]
JUndefined == JVal("undefined", 0, <<>>, <<>>, <<>>)
JNull == JVal("null", 0, <<>>, <<>>, <<>>)
JBool(b) == JVal("bool", IF b THEN 1 ELSE 0, <<>>, <<>>, <<>>)
JNum(n) == JVal("num", n, <<>>, <<>>, <<>>)
JStr(s) == JVal("str", 0, s, <<>>, <<>>)
JArr(a) == JVal("arr", 0, <<>>, <<>>, a)
JObj(k, a) == JVal("obj", 0, <<>>, k, a)

\* Array.isArray(v)
IsArray(v) == v.t = "arr"

\* !v
Falsy(v) ==
  \/ v.t \in {"undefined", "null"}
  \/ v.t = "bool" /\ v.n = 0
  \/ v.t = "num" /\ v.n = 0
  \/ v.t = "str" /\ v.s = <<>>

\* Reading v.key throws a TypeError
GetThrows(v) == v.t \in {"undefined", "null"}

\* v.key for a key that no array, string, number or boolean has
Get(v, key) ==
  IF v.t = "obj" /\ \E j \in 1..Len(v.k) : v.k[j] = key
  THEN v.a[CHOOSE j \in 1..Len(v.k) : v.k[j] = key]
  ELSE JUndefined

\* obj[key] = val as JSON.parse does it: a repeated key keeps its place and
\* takes the later value
PutMember(obj, key, val) ==
  IF \E j \in 1..Len(obj.k) : obj.k[j] = key
  THEN LET j == CHOOSE x \in 1..Len(obj.k) : obj.k[x] = key
       IN JObj(obj.k, [obj.a EXCEPT ![j] = val])
  ELSE JObj(Append(obj.k, key), Append(obj.a, val))

\* ------------------------------------------------------------------------
\* JSON.parse

ParseFail == [ok |-> FALSE, v |-> JUndefined, i |-> 0]
ParseOk(v, i) == [ok |-> TRUE, v |-> v, i |-> i]

RECURSIVE SkipWs(_, _)
SkipWs(t, i) ==
  IF i <= Len(t) /\ t[i] \in JsonWs THEN SkipWs(t, i + 1) ELSE i

\* the index of the quote closing the string whose first character is at i,
\* 0 when the string is unterminated or holds a raw control character
RECURSIVE StringEnd(_, _)
StringEnd(t, i) ==
  IF i > Len(t) THEN 0
  ELSE IF t[i] = Quote THEN i
  ELSE IF t[i] = "\n" THEN 0
  ELSE StringEnd(t, i + 1)

RECURSIVE DigitsEnd(_, _)
DigitsEnd(t, i) ==
  IF i <= Len(t) /\ t[i] \in Digits THEN DigitsEnd(t, i + 1) ELSE i

RECURSIVE Decimal(_, _, _, _)
Decimal(t, i, j, acc) ==
  IF i >= j THEN acc ELSE Decimal(t, i + 1, j, 10 * acc + DigitVal(t[i]))

\* an integer at i (digits only, no leading zero)
ParseNumber(t, i, sign) ==
  IF i > Len(t) \/ t[i] \notin Digits THEN ParseFail
  ELSE IF t[i] = "0" THEN ParseOk(JNum(0), i + 1)
  ELSE LET j == DigitsEnd(t, i)
       IN ParseOk(JNum(sign * Decimal(t, i, j, 0)), j)

RECURSIVE ParseValue(_, _)
RECURSIVE ParseElements(_, _, _)
RECURSIVE ParseMembers(_, _, _)

\* the value starting at i (whitespace already skipped)
ParseValue(t, i) ==
  IF i > Len(t) THEN ParseFail
  ELSE IF t[i] = "{" THEN
    LET j == SkipWs(t, i + 1)
    IN IF j <= Len(t) /\ t[j] = "}" THEN ParseOk(JObj(<<>>, <<>>), j + 1)
       ELSE ParseMembers(t, j, JObj(<<>>, <<>>))
  ELSE IF t[i] = "[" THEN
    LET j == SkipWs(t, i + 1)
    IN IF j <= Len(t) /\ t[j] = "]" THEN ParseOk(JArr(<<>>), j + 1)
       ELSE ParseElements(t, j, <<>>)
  ELSE IF t[i] = Quote THEN
    LET e == StringEnd(t, i + 1)
    IN IF e = 0 THEN ParseFail ELSE ParseOk(JStr(SubSeq(t, i + 1, e - 1)), e + 1)
  ELSE IF t[i] = "-" THEN ParseNumber(t, i + 1, -1)
  ELSE IF t[i] \in Digits THEN ParseNumber(t, i, 1)
  ELSE IF t[i] = "null" THEN ParseOk(JNull, i + 1)
  ELSE IF t[i] = "true" THEN ParseOk(JBool(TRUE), i + 1)
  ELSE IF t[i] = "false" THEN ParseOk(JBool(FALSE), i + 1)
  ELSE ParseFail

\* the elements of an array from i on, up to and including its "]"
ParseElements(t, i, acc) ==
  LET r == ParseValue(t, i)
  IN IF ~r.ok THEN ParseFail
     ELSE LET j == SkipWs(t, r.i)
          IN IF j > Len(t) THEN ParseFail
             ELSE IF t[j] = "]" THEN ParseOk(JArr(Append(acc, r.v)), j + 1)
             ELSE IF t[j] = "," THEN
               ParseElements(t, SkipWs(t, j + 1), Append(acc, r.v))
             ELSE ParseFail

\* the members of an object from i on, up to and including its "}"
ParseMembers(t, i, obj) ==
  IF i > Len(t) \/ t[i] # Quote THEN ParseFail
  ELSE
    LET e == StringEnd(t, i + 1)
    IN IF e = 0 THEN ParseFail
       ELSE
         LET key == SubSeq(t, i + 1, e - 1)
             c == SkipWs(t, e + 1)
         IN IF c > Len(t) \/ t[c] # ":" THEN ParseFail
            ELSE
              LET r == ParseValue(t, SkipWs(t, c + 1))
              IN IF ~r.ok THEN ParseFail
                 ELSE
                   LET j == SkipWs(t, r.i)
                       o == PutMember(obj, key, r.v)
                   IN IF j > Len(t) THEN ParseFail
                      ELSE IF t[j] = "}" THEN ParseOk(o, j + 1)
                      ELSE IF t[j] = "," THEN ParseMembers(t, SkipWs(t, j + 1), o)
                      ELSE ParseFail

\* JSON.parse(t): ok is FALSE where it throws a SyntaxError
JSONParse(t) ==
  LET r == ParseValue(t, SkipWs(t, 1))
  IN IF r.ok /\ SkipWs(t, r.i) = Len(t) + 1 THEN r ELSE ParseFail

\* ------------------------------------------------------------------------
\* JSON text of a value, as the provider may write it (compact)

RECURSIVE DecimalText(_)
DecimalText(n) ==
  LET d == CHOOSE c \in Digits : DigitVal(c) = n % 10
  IN IF n < 10 THEN <<d>> ELSE Append(DecimalText(n \div 10), d)

RECURSIVE Stringify(_)
RECURSIVE StringifyList(_, _)
RECURSIVE StringifyMembers(_, _)

Stringify(v) ==
  CASE v.t = "null" -> <<"null">>
    [] v.t = "bool" -> IF v.n = 1 THEN <<"true">> ELSE <<"false">>
    [] v.t = "num" -> IF v.n < 0 THEN <<"-">> \o DecimalText(-v.n)
                      ELSE DecimalText(v.n)
    [] v.t = "str" -> <<Quote>> \o v.s \o <<Quote>>
    [] v.t = "arr" -> <<"[">> \o StringifyList(v.a, 1) \o <<"]">>
    [] OTHER -> <<"{">> \o StringifyMembers(v, 1) \o <<"}">>

StringifyList(a, i) ==
  IF i > Len(a) THEN <<>>
  ELSE Stringify(a[i]) \o (IF i < Len(a) THEN <<",">> ELSE <<>>)
       \o StringifyList(a, i + 1)

StringifyMembers(o, i) ==
  IF i > Len(o.k) THEN <<>>
  ELSE <<Quote>> \o o.k[i] \o <<Quote, ":">> \o Stringify(o.a[i])
       \o (IF i < Len(o.k) THEN <<",">> ELSE <<>>)
       \o StringifyMembers(o, i + 1)

\* ------------------------------------------------------------------------
\* String methods

TrimWs == {" ", "\n"}

\* s.trim()
RECURSIVE TrimStart(_)
TrimStart(s) ==
  IF s # <<>> /\ Head(s) \in TrimWs THEN TrimStart(Tail(s)) ELSE s

RECURSIVE TrimEnd(_)
TrimEnd(s) ==
  IF s # <<>> /\ s[Len(s)] \in TrimWs THEN TrimEnd(SubSeq(s, 1, Len(s) - 1))
  ELSE s

Trim(s) == TrimEnd(TrimStart(s))

\* s.startsWith(c), s.includes(c) for a one-character c
StartsWith(s, c) == s # <<>> /\ s[1] = c
Includes(s, c) == \E i \in 1..Len(s) : s[i] = c

\* s.split(c): the pieces between the occurrences of c
RECURSIVE SplitFrom(_, _, _, _)
SplitFrom(s, c, i, piece) ==
  IF i > Len(s) THEN <<piece>>
  ELSE IF s[i] = c THEN <<piece>> \o SplitFrom(s, c, i + 1, <<>>)
  ELSE SplitFrom(s, c, i + 1, Append(piece, s[i]))

Split(s, c) == SplitFrom(s, c, 1, <<>>)

\* s.replace(/```json\n?/g, '')
RECURSIVE StripJsonFences(_, _)
StripJsonFences(s, i) ==
  IF i > Len(s) THEN <<>>
  ELSE IF s[i] = Fence /\ i + 1 <= Len(s) /\ s[i + 1] = "json" THEN
    StripJsonFences(s, IF i + 2 <= Len(s) /\ s[i + 2] = "\n" THEN i + 3 ELSE i + 2)
  ELSE <<s[i]>> \o StripJsonFences(s, i + 1)

\* s.replace(/```\n?/g, '')
RECURSIVE StripBareFences(_, _)
StripBareFences(s, i) ==
  IF i > Len(s) THEN <<>>
  ELSE IF s[i] = Fence THEN
    StripBareFences(s, IF i + 1 <= Len(s) /\ s[i + 1] = "\n" THEN i + 2 ELSE i + 1)
  ELSE <<s[i]>> \o StripBareFences(s, i + 1)

\* the clean-up both handlers apply before JSON.parse
CleanText(s) == Trim(StripBareFences(StripJsonFences(s, 1), 1))

\* the literal "results" (with its quotes) starts at j
ResultsAt(s, j) ==
  j + 2 <= Len(s) /\ s[j] = Quote /\ s[j + 1] = "results" /\ s[j + 2] = Quote

\* s.match(/\{[\s\S]*"results"[\s\S]*\}/): the match starts at the leftmost
\* "{" from which it can succeed and, both stars being greedy, ends at the
\* last "}" that still leaves a "results" literal between the two
MatchEnds(s, i) ==
  {e \in (i + 4)..Len(s) :
     s[e] = "}" /\ \E j \in (i + 1)..(e - 3) : ResultsAt(s, j)}

MatchStarts(s) == {i \in 1..Len(s) : s[i] = "{" /\ MatchEnds(s, i) # {}}

Matches(s) == MatchStarts(s) # {}

\* variant: lazy stars, /\{[\s\S]*?"results"[\s\S]*?\}/: the match ends at the
\* first "}" after the literal
JsonMatchLazy(s) ==
  LET i == CHOOSE x \in MatchStarts(s) : \A y \in MatchStarts(s) : x <= y
      e == CHOOSE x \in MatchEnds(s, i) : \A y \in MatchEnds(s, i) : x <= y
  IN SubSeq(s, i, e)

JsonMatch(s) ==
  LET i == CHOOSE x \in MatchStarts(s) : \A y \in MatchStarts(s) : x <= y
      e == CHOOSE x \in MatchEnds(s, i) : \A y \in MatchEnds(s, i) : y <= x
  IN SubSeq(s, i, e)

\* ------------------------------------------------------------------------
\* Date: a local calendar date [y, m, d], m from 0 (January) as in JavaScript

IsLeap(y) == (y % 4 = 0 /\ y % 100 # 0) \/ y % 400 = 0

DaysInMonth(y, m) ==
  IF m = 1 THEN (IF IsLeap(y) THEN 29 ELSE 28)
  ELSE IF m \in {3, 5, 8, 10} THEN 30
  ELSE 31

MkDate(y, m, d) == [y |-> y, m |-> m, d |-> d]

\* leap days up to and including year y
LeapsThrough(y) == (y \div 4) - (y \div 100) + (y \div 400)

RECURSIVE DaysBeforeMonth(_, _)
DaysBeforeMonth(y, m) ==
  IF m = 0 THEN 0 ELSE DaysBeforeMonth(y, m - 1) + DaysInMonth(y, m - 1)

\* whole days from 1 January 1970 to the date
EpochDay(date) ==
  365 * (date.y - 1970) + (LeapsThrough(date.y - 1) - LeapsThrough(1969))
  + DaysBeforeMonth(date.y, date.m) + (date.d - 1)

\* date.getDay(): 0 = Sunday; 1 January 1970 was a Thursday
GetDay(date) == (EpochDay(date) + 4) % 7

\* date.getDate()
GetDate(date) == date.d

\* date.setDate(n) for n >= 1: days past the end of the month roll over
RECURSIVE SetDate(_, _)
SetDate(date, n) ==
  IF n <= DaysInMonth(date.y, date.m) THEN MkDate(date.y, date.m, n)
  ELSE SetDate(IF date.m = 11 THEN MkDate(date.y + 1, 0, 1)
               ELSE MkDate(date.y, date.m + 1, 1),
               n - DaysInMonth(date.y, date.m))

\* variant: without the '|| 7' fallback
DaysUntilMondayNoFallback(dayOfWeek) ==
  IF dayOfWeek = 0 THEN 1 ELSE (8 - dayOfWeek) % 7

\* dayOfWeek === 0 ? 1 : (8 - dayOfWeek) % 7 || 7
DaysUntilMonday(dayOfWeek) ==
  IF dayOfWeek = 0 THEN 1
  ELSE IF (8 - dayOfWeek) % 7 # 0 THEN (8 - dayOfWeek) % 7
  ELSE 7

NextMonday(today) ==
  SetDate(today, GetDate(today) + DaysUntilMonday(GetDay(today)))

NextSunday(today) ==
  SetDate(NextMonday(today), GetDate(NextMonday(today)) + 6)

\* the window the prompt names
QuizWindow(today) ==
  [start |-> NextMonday(today), end |-> NextSunday(today)]

\* ------------------------------------------------------------------------
\* parseOptions

\* options.split(',').map(opt => opt.trim()).filter(Boolean)
RECURSIVE TrimmedPieces(_, _)
TrimmedPieces(pieces, i) ==
  IF i > Len(pieces) THEN <<>>
  ELSE (IF Trim(pieces[i]) # <<>> THEN <<JStr(Trim(pieces[i]))>> ELSE <<>>)
       \o TrimmedPieces(pieces, i + 1)

\* variant: without .filter(Boolean)
SplitOptionsKeepingEmpty(s) ==
  [i \in 1..Len(Split(s, ",")) |-> JStr(Trim(Split(s, ",")[i]))]

SplitOptions(s) == TrimmedPieces(Split(s, ","), 1)

parseOptions(options) ==
  IF IsArray(options) THEN options
  ELSE IF options.t = "str" THEN
    IF StartsWith(Trim(options.s), "[") /\ JSONParse(options.s).ok
       /\ IsArray(JSONParse(options.s).v)
    THEN JSONParse(options.s).v
    ELSE IF Includes(options.s, ",") THEN JArr(SplitOptions(options.s))
    ELSE IF Trim(options.s) # <<>> THEN JArr(<<JStr(Trim(options.s))>>)
    ELSE JArr(<<>>)
  ELSE JArr(<<>>)

\* ------------------------------------------------------------------------
\* What a handler run ends in: a response sent with res.status(..).json(..)
\* or an exception thrown.  at names the return site, log the arguments of
\* the console.error call made on the way (<<>> when there is none).

Respond(status, key, error, payload, at, log) ==
  [thrown |-> FALSE, status |-> status, key |-> key, error |-> error,
   payload |-> payload, at |-> at, log |-> log]

Threw(message) ==
  [thrown |-> TRUE, status |-> 0, key |-> "", error |-> message,
   payload |-> JUndefined, at |-> "throw", log |-> <<>>]

NoResponse == Respond(0, "", <<>>, JUndefined, "", <<>>)

TypeErrorMessage == <<"Cannot read properties">>
SyntaxErrorMessage == <<"Unexpected token">>
FetchFailedMessage == <<"fetch failed">>
TerminatedMessage == <<"terminated">>

\* variant: only an unset key counts as missing (key === undefined)
MissingKeyStrict(key) == key.t = "undefined"

\* !ANTHROPIC_API_KEY
MissingKey(key) == Falsy(key)

\* if (!ANTHROPIC_API_KEY) return res.status(500).json(...)
ConfigError(tag) ==
  Respond(500, "error", <<"Server configuration error: API key missing">>,
          JUndefined, "config", <<tag, "Missing ANTHROPIC_API_KEY">>)

\* variant: no try/catch around the handler's body
CatchNothing(tag, o) == o

\* catch (err) { console.error(...); res.status(500).json(...) }
Catch(tag, o) ==
  IF o.thrown
  THEN Respond(500, "error", <<"Server error: ">> \o o.error, JUndefined,
               "catch", <<tag, "Server error:">> \o o.error)
  ELSE o

\* response.ok
ResponseOk(status) == status >= 200 /\ status <= 299

\* variant: the provider's body is put in the message
UpstreamErrorForwardingBody(tag, up) ==
  IF ~up.bodyOk THEN Threw(<<"terminated">>)
  ELSE Respond(502, "error",
               <<"Claude API error: ">> \o DecimalText(up.status) \o up.text,
               JUndefined, "upstream-status",
               <<tag, "Claude API error:">> \o DecimalText(up.status) \o up.text)

\* if (!response.ok) { errorText = await response.text(); console.error(..);
\*   return res.status(502).json({ error: `Claude API error: ${status}` }) }
UpstreamError(tag, up) ==
  IF ~up.bodyOk THEN Threw(TerminatedMessage)
  ELSE Respond(502, "error", <<"Claude API error: ">> \o DecimalText(up.status),
               JUndefined, "upstream-status",
               <<tag, "Claude API error:">> \o DecimalText(up.status) \o up.text)

InvalidFormat ==
  Respond(502, "error", <<"Invalid response format from Claude">>, JUndefined,
          "shape", <<>>)

\* ------------------------------------------------------------------------
\* POST /generate-questions, after the provider's body was read as JSON

TextType == JStr(<<"text">>)

\* the index of the first item of type 'text', 0 when there is none
RECURSIVE FindText(_, _)
FindText(items, i) ==
  IF i > Len(items) THEN 0
  ELSE IF Get(items[i], <<"type">>) = TextType THEN i
  ELSE FindText(items, i + 1)

\* variant: an empty array is refused as well
ValidateNonEmpty(parsed, field) ==
  IF GetThrows(parsed) THEN Threw(TypeErrorMessage)
  ELSE IF Falsy(Get(parsed, <<field>>)) \/ ~IsArray(Get(parsed, <<field>>))
          \/ Len(Get(parsed, <<field>>).a) = 0
  THEN InvalidFormat
  ELSE Respond(200, field, <<>>, Get(parsed, <<field>>), "ok", <<>>)

\* the shape test on parsed.questions / parsed.results, and the answer
Validate(parsed, field) ==
  IF GetThrows(parsed) THEN Threw(TypeErrorMessage)
  ELSE IF Falsy(Get(parsed, <<field>>)) \/ ~IsArray(Get(parsed, <<field>>))
  THEN InvalidFormat
  ELSE Respond(200, field, <<>>, Get(parsed, <<field>>), "ok", <<>>)

\* JSON.parse(cleanText), then the shape check
ParseAndValidate(cleanText, field) ==
  IF ~JSONParse(cleanText).ok THEN Threw(SyntaxErrorMessage)
  ELSE Validate(JSONParse(cleanText).v, field)

GenerateExtract(data) ==
  IF GetThrows(data) THEN Threw(TypeErrorMessage)
  ELSE
    LET content == Get(data, <<"content">>)
    IN IF content.t \in {"undefined", "null"} THEN
         Respond(502, "error", <<"No text content in Claude response">>,
                 JUndefined, "no-text", <<>>)
       ELSE IF ~IsArray(content) THEN Threw(TypeErrorMessage)
       ELSE IF FindText(content.a, 1) = 0 THEN
         Respond(502, "error", <<"No text content in Claude response">>,
                 JUndefined, "no-text", <<>>)
       ELSE
         LET text == Get(content.a[FindText(content.a, 1)], <<"text">>)
         IN IF text.t # "str" THEN Threw(TypeErrorMessage)
            ELSE ParseAndValidate(CleanText(text.s), "questions")

\* ------------------------------------------------------------------------
\* POST /auto-score, after the provider's body was read as JSON

\* item.text + '\n' as string concatenation coerces it
TextOf(v) ==
  CASE v.t = "str" -> v.s
    [] v.t = "undefined" -> <<"undefined">>
    [] v.t = "null" -> <<"null">>
    [] v.t = "num" -> Stringify(v)
    [] OTHER -> <<"[object Object]">>

\* for (const item of data.content) if (item.type === 'text')
\*   fullText += item.text + '\n'
RECURSIVE FullText(_, _)
FullText(items, i) ==
  IF i > Len(items) THEN <<>>
  ELSE (IF Get(items[i], <<"type">>) = TextType
        THEN TextOf(Get(items[i], <<"text">>)) \o <<"\n">>
        ELSE <<>>)
       \o FullText(items, i + 1)

ExtractResults(fullText) ==
  IF ~Matches(fullText) THEN
    Respond(502, "error", <<"Could not extract results from Claude response">>,
            JUndefined, "no-match",
            <<"[auto-score]", "No JSON found in response:">> \o fullText)
  ELSE ParseAndValidate(CleanText(JsonMatch(fullText)), "results")

ScoreExtract(data) ==
  IF GetThrows(data) THEN Threw(TypeErrorMessage)
  ELSE
    LET content == Get(data, <<"content">>)
    IN IF content.t = "str" THEN ExtractResults(<<>>)
       ELSE IF ~IsArray(content) THEN Threw(TypeErrorMessage)
       ELSE ExtractResults(FullText(content.a, 1))

\* ------------------------------------------------------------------------
\* Both handlers from the settled fetch on (the try block after the await)

Extract(endpoint, data) ==
  IF endpoint = "generate-questions" THEN GenerateExtract(data)
  ELSE ScoreExtract(data)

Tag(endpoint) == "[" \o endpoint \o "]"

AfterFetch(endpoint, up) ==
  IF up.kind = "reject" THEN Threw(FetchFailedMessage)
  ELSE IF ~ResponseOk(up.status) THEN UpstreamError(Tag(endpoint), up)
  ELSE IF ~up.bodyOk THEN Threw(TerminatedMessage)
  ELSE IF ~up.jsonOk THEN Threw(SyntaxErrorMessage)
  ELSE Extract(endpoint, up.data)

\* ------------------------------------------------------------------------
\* POST /auto-score up to the fetch

\* const { questions } = req.body
Questions(body) == Get(body, <<"questions">>)

\* variant: the length of the array is not looked at
NoQuestionsAnyArray(questions) == Falsy(questions) \/ ~IsArray(questions)

\* if (!questions || !Array.isArray(questions) || questions.length === 0)
NoQuestions(questions) ==
  Falsy(questions) \/ ~IsArray(questions) \/ Len(questions.a) = 0

InputError ==
  Respond(400, "error", <<"No questions provided">>, JUndefined, "input", <<>>)

\* questions.map((q, i) => { const options = parseOptions(q.options); ... })
\* reads q.options of every entry: a null entry throws
PromptThrows(questions) ==
  \E i \in 1..Len(questions.a) : GetThrows(questions.a[i])

PromptOptions(questions) ==
  [i \in 1..Len(questions.a) |-> parseOptions(Get(questions.a[i], <<"options">>))]

\* ------------------------------------------------------------------------
\* Bounds and the inputs drawn

MaxQuestions == 2
MaxIndex == 1
MaxResults == 2
MaxOptLen == 4
FirstYear == 2026
NumYears == 3

\* process.env.ANTHROPIC_API_KEY: unset, empty, or a key
ApiKeys == {JUndefined, JStr(<<>>), JStr(<<"k">>)}

\* the process clock 'new Date()' reads: one date for each day of a week
\* that runs over the end of a year
ClockDates == {SetDate(MkDate(FirstYear, 11, 1), 27 + k) : k \in 0..6}

Dates ==
  {MkDate(y, m, d) : y \in FirstYear..(FirstYear + NumYears - 1),
                     m \in 0..11, d \in 1..31}

\* the entries of a submitted batch
Entry(options) ==
  JObj(<<<<"id">>, <<"category">>, <<"question_text">>, <<"options">>>>,
       <<JStr(<<"q">>), JStr(<<"sports">>), JStr(<<"W", "?">>), options>>)

EntryAt(i) ==
  CASE i % 3 = 1 -> Entry(JArr(<<JStr(<<"a">>), JStr(<<"b">>)>>))
    [] i % 3 = 2 -> Entry(JStr(<<"a", ",", " ", "b", ",">>))
    [] OTHER -> JObj(<<<<"id">>>>, <<JStr(<<"q">>)>>)

\* a batch of n entries, the one at position hole (if any) being null
Batch(n, hole) ==
  JArr([i \in 1..n |-> IF i = hole THEN JNull ELSE EntryAt(i)])

Batches == {Batch(n, hole) : n \in 1..MaxQuestions, hole \in 0..MaxQuestions}

WithQuestions(q) == JObj(<<<<"questions">>>>, <<q>>)

\* request bodies as express.json() delivers them: an object or an array
ScoreBodies ==
  {JObj(<<>>, <<>>), JArr(<<>>)}
  \cup {WithQuestions(q) :
          q \in {JNull, JStr(<<"q">>), JStr(<<>>), JNum(0), JNum(1),
                 JObj(<<>>, <<>>), JBool(TRUE), JArr(<<>>)} \cup Batches}

GenerateBodies == {JObj(<<>>, <<>>), WithQuestions(JArr(<<>>))}

\* what the provider may put in its text
IndexResult(n) == JObj(<<<<"question_index">>>>, <<JNum(n)>>)

ResultArrays ==
  {JArr(a) : a \in UNION {[1..n -> {IndexResult(x) : x \in 0..MaxIndex}] :
                            n \in 0..MaxResults}}

FieldValues ==
  ResultArrays
  \cup {JNull, JNum(0), JNum(1), JStr(<<"x">>), JStr(<<>>), JBool(FALSE),
        JObj(<<>>, <<>>), JArr(<<JStr(<<Fence>>)>>), JArr(<<JStr(<<"}">>)>>)}

PayloadValues ==
  {JObj(<<<<key>>>>, <<fv>>) : key \in {"results", "questions"}, fv \in FieldValues}
  \cup {JNull, JNum(1), JBool(TRUE), JStr(<<"x">>), JStr(<<"results">>),
        JArr(<<>>), JObj(<<>>, <<>>)}

Malformed ==
  {<<>>, <<"S", "o", "r", "r", "y">>,
   <<"{", Quote, "results", Quote, ":", "[", "}">>,
   <<"{", Quote, "questions", Quote, ":", "[", "]">>}

CoreTexts == {Stringify(v) : v \in PayloadValues} \cup Malformed

Fenced(t) == <<Fence, "json", "\n">> \o t \o <<"\n", Fence>>

Proses == {<<>>, <<"H", " ">>, <<"{">>, <<"H", "}", " ">>}

Tails == {<<>>, <<"\n", "}">>}

Texts ==
  {p \o w \o tl : p \in Proses, tl \in Tails,
                  w \in CoreTexts \cup {Fenced(c) : c \in CoreTexts}}

\* content segments
TextSegment(t) == JObj(<<<<"type">>, <<"text">>>>, <<TextType, JStr(t)>>)
ToolSegment == JObj(<<<<"type">>, <<"name">>>>,
                    <<JStr(<<"server_tool_use">>), JStr(<<"web_search">>)>>)
BareTextSegment == JObj(<<<<"type">>>>, <<TextType>>)

\* prose followed by a results object, cut in two text segments at any place
SplitTexts ==
  UNION {{<<SubSeq(t, 1, c), SubSeq(t, c + 1, Len(t))>> : c \in 0..Len(t)} :
           t \in {p \o Stringify(JObj(<<<<"results">>>>, <<r>>)) :
                    p \in Proses, r \in ResultArrays}}

\* a tool call, the text, a closing remark
SingleText(t) == <<ToolSegment, TextSegment(t), TextSegment(<<"H">>)>>

\* two text segments around a tool call
SplitText(s1, s2) == <<TextSegment(s1), ToolSegment, TextSegment(s2)>>

Contents ==
  {SingleText(t) : t \in Texts}
  \cup {SplitText(st[1], st[2]) : st \in SplitTexts}
  \cup {<<>>, <<ToolSegment>>, <<BareTextSegment>>}

Body(data) ==
  [kind |-> "response", status |-> 200, bodyOk |-> TRUE, jsonOk |-> TRUE,
   text |-> <<>>, data |-> data]

ErrorStatuses == {400, 401, 429, 500, 529}

\* how the awaited fetch settles
Replies ==
  {[kind |-> "reject", status |-> 0, bodyOk |-> FALSE, jsonOk |-> FALSE,
    text |-> <<>>, data |-> JUndefined]}
  \cup {[kind |-> "response", status |-> st, bodyOk |-> b, jsonOk |-> FALSE,
         text |-> <<"overloaded_error">>, data |-> JUndefined] :
          st \in ErrorStatuses, b \in BOOLEAN}
  \cup {[kind |-> "response", status |-> 200, bodyOk |-> b, jsonOk |-> FALSE,
         text |-> <<"<html>">>, data |-> JUndefined] : b \in BOOLEAN}
  \cup {Body(d) : d \in {JNull, JObj(<<>>, <<>>),
                         JObj(<<<<"content">>>>, <<JNull>>),
                         JObj(<<<<"content">>>>, <<JStr(<<"x">>)>>),
                         JObj(<<<<"content">>>>, <<JNum(1)>>)}}
  \cup {Body(JObj(<<<<"content">>>>, <<JArr(c)>>)) : c \in Contents}

NoReply ==
  [kind |-> "none", status |-> 0, bodyOk |-> FALSE, jsonOk |-> FALSE,
   text |-> <<>>, data |-> JUndefined]

NoDate == MkDate(0, 0, 0)
NoWindow == [start |-> NoDate, end |-> NoDate]

\* ------------------------------------------------------------------------
\* State

VARIABLES
  apiKey,         \* process.env.ANTHROPIC_API_KEY
  pc,             \* "idle", "fetching" (await fetch), "replied", "done"
  endpoint,       \* the route of the request being handled
  body,           \* req.body
  today,          \* new Date() of the Generate handler
  quizWindow,     \* nextMonday and nextSunday of the Generate prompt
  promptOptions,  \* the options lists of the Auto-Score prompt
  fetchCount,     \* fetch calls made for this request
  upstream,       \* how the fetch settled
  res,            \* the response sent
  uncaught,       \* an exception left the handler
  optInput,       \* parseOptions alone: its argument
  optOutput       \* parseOptions alone: its result

vars == <<apiKey, pc, endpoint, body, today, quizWindow, promptOptions,
          fetchCount, upstream, res, uncaught, optInput, optOutput>>

Init ==
  /\ apiKey \in ApiKeys
  /\ pc = "idle"
  /\ endpoint = "none"
  /\ body = JUndefined
  /\ today = NoDate
  /\ quizWindow = NoWindow
  /\ promptOptions = <<>>
  /\ fetchCount = 0
  /\ upstream = NoReply
  /\ res = NoResponse
  /\ uncaught = FALSE
  /\ optInput = JUndefined
  /\ optOutput = JUndefined

\* the handler ends with outcome o
Finish(o) ==
  /\ res' = (IF o.thrown THEN NoResponse ELSE o)
  /\ uncaught' = o.thrown
  /\ pc' = "done"

\* a request arrives (requests share no state: one at a time is all of it)
Arrive(route, b) ==
  /\ pc = "idle"
  /\ endpoint' = route
  /\ body' = b
  /\ upstream' = NoReply
  /\ UNCHANGED <<apiKey, optInput, optOutput>>

\* app.post('/generate-questions') up to 'await fetch'
GenerateStart ==
  \E b \in GenerateBodies, now \in ClockDates :
    /\ Arrive("generate-questions", b)
    /\ promptOptions' = <<>>
    /\ IF MissingKey(apiKey)
       THEN /\ Finish(ConfigError("[generate-questions]"))
            /\ today' = NoDate
            /\ quizWindow' = NoWindow
            /\ fetchCount' = 0
       ELSE /\ today' = now
            /\ quizWindow' = QuizWindow(now)
            /\ fetchCount' = 1
            /\ res' = NoResponse
            /\ uncaught' = FALSE
            /\ pc' = "fetching"

\* app.post('/auto-score') up to 'await fetch'
AutoScoreStart ==
  \E b \in ScoreBodies :
    /\ Arrive("auto-score", b)
    /\ today' = NoDate
    /\ quizWindow' = NoWindow
    /\ IF MissingKey(apiKey)
       THEN /\ Finish(ConfigError("[auto-score]"))
            /\ promptOptions' = <<>>
            /\ fetchCount' = 0
       ELSE IF NoQuestions(Questions(b))
       THEN /\ Finish(InputError)
            /\ promptOptions' = <<>>
            /\ fetchCount' = 0
       ELSE IF PromptThrows(Questions(b))
       THEN /\ Finish(Catch("[auto-score]", Threw(TypeErrorMessage)))
            /\ promptOptions' = <<>>
            /\ fetchCount' = 0
       ELSE /\ promptOptions' = PromptOptions(Questions(b))
            /\ fetchCount' = 1
            /\ res' = NoResponse
            /\ uncaught' = FALSE
            /\ pc' = "fetching"

\* the provider answers, or the call fails
ProviderReply ==
  /\ pc = "fetching"
  /\ upstream' \in Replies
  /\ pc' = "replied"
  /\ UNCHANGED <<apiKey, endpoint, body, today, quizWindow, promptOptions,
                 fetchCount, res, uncaught, optInput, optOutput>>

\* the handler from the settled fetch to its response
Resume(route) ==
  /\ pc = "replied"
  /\ endpoint = route
  /\ Finish(Catch(Tag(route), AfterFetch(route, upstream)))
  /\ UNCHANGED <<apiKey, endpoint, body, today, quizWindow, promptOptions,
                 fetchCount, upstream, optInput, optOutput>>

GenerateResume == Resume("generate-questions")
AutoScoreResume == Resume("auto-score")

\* the request is over; nothing of it is kept
Forget ==
  /\ pc = "done"
  /\ pc' = "idle"
  /\ endpoint' = "none"
  /\ body' = JUndefined
  /\ today' = NoDate
  /\ quizWindow' = NoWindow
  /\ promptOptions' = <<>>
  /\ fetchCount' = 0
  /\ upstream' = NoReply
  /\ res' = NoResponse
  /\ uncaught' = FALSE
  /\ UNCHANGED <<apiKey, optInput, optOutput>>

Next ==
  \/ GenerateStart
  \/ AutoScoreStart
  \/ ProviderReply
  \/ GenerateResume
  \/ AutoScoreResume
  \/ Forget

Spec == Init /\ [][Next]_vars

\* ------------------------------------------------------------------------
\* parseOptions alone, on every short string and on values of every type

OptChars == {"a", ",", " ", "[", "]", Quote}

OptStrings ==
  UNION {[1..n -> OptChars] : n \in 0..MaxOptLen}
  \cup {<<"a", ",", " ", "b", ",", " ", "c">>,
        <<"s", "o", "l", "o">>,
        <<"[", Quote, "x", Quote, ",", Quote, "y", Quote, "]">>,
        <<" ", "[", Quote, "x", Quote, ",", " ", "1", "]", " ">>,
        <<"[", Quote, "x", Quote, ",", Quote, "y", Quote>>,
        <<"{", Quote, "x", Quote, ":", "1", "}">>}

OptionInputs ==
  {JStr(s) : s \in OptStrings}
  \cup {JArr(<<>>), JArr(<<JStr(<<"a">>), JStr(<<"b">>)>>),
        JArr(<<JStr(<<" ", "a">>), JStr(<<>>)>>), JArr(<<JNum(1), JNull>>)}
  \cup {JUndefined, JNull, JNum(0), JNum(1), JBool(TRUE), JObj(<<>>, <<>>)}

InitParse ==
  /\ apiKey = JStr(<<"k">>)
  /\ pc = "idle"
  /\ endpoint = "none"
  /\ body = JUndefined
  /\ today = NoDate
  /\ quizWindow = NoWindow
  /\ promptOptions = <<>>
  /\ fetchCount = 0
  /\ upstream = NoReply
  /\ res = NoResponse
  /\ uncaught = FALSE
  /\ optInput \in OptionInputs
  /\ optOutput = JUndefined

ParseOptionsCall ==
  /\ pc = "idle"
  /\ optOutput' = parseOptions(optInput)
  /\ pc' = "done"
  /\ UNCHANGED <<apiKey, endpoint, body, today, quizWindow, promptOptions,
                 fetchCount, upstream, res, uncaught, optInput>>

SpecParse == InitParse /\ [][ParseOptionsCall]_vars

\* ------------------------------------------------------------------------
\* The window computation alone, on every date of the years drawn

InitWindow ==
  /\ apiKey = JStr(<<"k">>)
  /\ pc = "idle"
  /\ endpoint = "none"
  /\ body = JUndefined
  /\ today \in {d \in Dates : d.d <= DaysInMonth(d.y, d.m)}
  /\ quizWindow = NoWindow
  /\ promptOptions = <<>>
  /\ fetchCount = 0
  /\ upstream = NoReply
  /\ res = NoResponse
  /\ uncaught = FALSE
  /\ optInput = JUndefined
  /\ optOutput = JUndefined

ComputeWindow ==
  /\ pc = "idle"
  /\ quizWindow' = QuizWindow(today)
  /\ pc' = "done"
  /\ UNCHANGED <<apiKey, endpoint, body, today, promptOptions, fetchCount,
                 upstream, res, uncaught, optInput, optOutput>>

SpecWindow == InitWindow /\ [][ComputeWindow]_vars

\* ========================================================================
\* Properties

ConfigErrorMessage == <<"Server configuration error: API key missing">>
InvalidFormatMessage == <<"Invalid response format from Claude">>
NoTextMessage == <<"No text content in Claude response">>

InFlight == pc \in {"fetching", "replied"}

\* the content segments of the provider's answer, <<>> when it has none
ReplyItems ==
  IF upstream.kind = "response" /\ upstream.jsonOk /\ upstream.data.t = "obj"
     /\ upstream.data.k = <<<<"content">>>> /\ upstream.data.a[1].t = "arr"
  THEN upstream.data.a[1].a
  ELSE <<>>

IsTextItem(item) == item.t = "obj" /\ item.k[1] = <<"type">> /\ item.a[1] = TextType

\* the segments of type 'text', in order
TextItems == SelectSeq(ReplyItems, IsTextItem)

\* the text of a segment that carries one
TextField(item) == item.a[2].s
HasTextField(item) ==
  Len(item.k) = 2 /\ item.k[2] = <<"text">> /\ item.a[2].t = "str"

HasBrace(t) == \E i \in 1..Len(t) : t[i] = "{"

IsServerError(r) ==
  r.status = 500 /\ r.error # <<>> /\ r.error[1] = "Server error: "

\* ---- C1 ----------------------------------------------------------------
\* C1: with ANTHROPIC_API_KEY absent (unset or empty), on both endpoints and
\* for every body, no call to the provider is ever made and the request ends
\* with the 500 configuration error.
C1_NoKeyNoCall ==
  (apiKey.t = "undefined" \/ apiKey = JStr(<<>>)) =>
    /\ fetchCount = 0
    /\ ~InFlight
    /\ pc = "done" =>
         /\ res.status = 500
         /\ res.error = ConfigErrorMessage
         /\ res.key = "error"
         /\ ~uncaught

\* an Auto-Score request with an empty questions list and no key, answered
C1_Witness ==
  /\ apiKey = JStr(<<>>)
  /\ pc = "done"
  /\ endpoint = "auto-score"
  /\ body = WithQuestions(JArr(<<>>))
  /\ res.status = 500

\* ---- C2 ----------------------------------------------------------------
\* the bodies whose questions field is a non-empty array
BatchBodies == {WithQuestions(q) : q \in Batches}

\* C2: with the key configured, an Auto-Score request whose questions field
\* is missing, not an array or an empty array ends with 400 'No questions
\* provided' and no call to the provider is made.
C2_NoQuestionsRejected ==
  (apiKey = JStr(<<"k">>) /\ endpoint = "auto-score" /\ body \notin BatchBodies) =>
    /\ fetchCount = 0
    /\ ~InFlight
    /\ pc = "done" =>
         /\ res.status = 400
         /\ res.error = <<"No questions provided">>
         /\ ~uncaught

C2_Witness ==
  /\ apiKey = JStr(<<"k">>)
  /\ pc = "done"
  /\ endpoint = "auto-score"
  /\ body = WithQuestions(JArr(<<>>))
  /\ res.status = 400
  /\ fetchCount = 0

\* ---- C3 ----------------------------------------------------------------
\* the Generate handler answered a reply whose first text segment holds no
\* "{" at all
C3_Case ==
  /\ pc = "done"
  /\ endpoint = "generate-questions"
  /\ TextItems # <<>>
  /\ HasTextField(TextItems[1])
  /\ ~HasBrace(TextField(TextItems[1]))

\* C3 as claimed: provider text with no JSON object is answered with the
\* no-text-content or the invalid-shape error (502); nothing escapes uncaught.
C3_Claimed ==
  C3_Case =>
    /\ ~uncaught
    /\ res.status = 502
    /\ res.error \in {NoTextMessage, InvalidFormatMessage}

\* C3 amended: such a text is answered with the generic 500 'Server error'
\* when it is not JSON (the parser's exception reaches the catch-all) and
\* otherwise with the 500 'Server error' or the 502 invalid-format error;
\* never with a 200, and no exception escapes the handler.
C3_NoObjectText ==
  C3_Case =>
    /\ ~uncaught
    /\ IsServerError(res) \/ (res.status = 502 /\ res.error = InvalidFormatMessage)
    /\ ~JSONParse(CleanText(TextField(TextItems[1]))).ok => IsServerError(res)

C3_Witness ==
  /\ C3_Case
  /\ TextField(TextItems[1]) = <<"S", "o", "r", "r", "y">>
  /\ IsServerError(res)

\* ---- C4 ----------------------------------------------------------------
\* C4: for every weekday of today the offset is in 1..7 (1 on Sunday, 7 on
\* Monday, 8 - d otherwise), the window starts on the Monday strictly after
\* today and ends six days later, on a Sunday.
C4_Window ==
  /\ \A d \in 0..6 : DaysUntilMonday(d) \in 1..7
  /\ (pc = "done" /\ quizWindow # NoWindow) =>
       LET d == GetDay(today)
           offset == EpochDay(quizWindow.start) - EpochDay(today)
       IN /\ offset = (IF d = 0 THEN 1 ELSE IF d = 1 THEN 7 ELSE 8 - d)
          /\ offset \in 1..7
          /\ GetDay(quizWindow.start) = 1
          /\ EpochDay(quizWindow.end) = EpochDay(quizWindow.start) + 6
          /\ GetDay(quizWindow.end) = 0
          /\ quizWindow.start.d \in 1..DaysInMonth(quizWindow.start.y, quizWindow.start.m)
          /\ quizWindow.end.d \in 1..DaysInMonth(quizWindow.end.y, quizWindow.end.m)

\* a Monday at the end of a month: the window starts a week later, in the
\* next month
C4_Witness ==
  /\ pc = "done"
  /\ GetDay(today) = 1
  /\ quizWindow.start.m # today.m
  /\ EpochDay(quizWindow.start) = EpochDay(today) + 7

\* ---- C5 ----------------------------------------------------------------
CommaAt(s) == {i \in 1..Len(s) : s[i] = ","}

\* the position of the k-th comma of s; 0 before the first piece, Len(s) + 1
\* after the last
Cut(s, k) ==
  IF k = 0 THEN 0
  ELSE IF k > Cardinality(CommaAt(s)) THEN Len(s) + 1
  ELSE CHOOSE i \in CommaAt(s) : Cardinality({j \in CommaAt(s) : j < i}) = k - 1

\* the pieces between the commas, each trimmed
PiecesOf(s) ==
  [k \in 1..(Cardinality(CommaAt(s)) + 1) |->
     JStr(Trim(SubSeq(s, Cut(s, k - 1) + 1, Cut(s, k) - 1)))]

\* the documented normalisation; the pieces of a comma-separated string are
\* taken as they are, or without the empty ones
Normalised(v, dropEmpty) ==
  IF v.t = "arr" THEN v
  ELSE IF v.t # "str" THEN JArr(<<>>)
  ELSE IF StartsWith(Trim(v.s), "[") /\ JSONParse(v.s).ok
          /\ JSONParse(v.s).v.t = "arr"
  THEN JSONParse(v.s).v
  ELSE IF CommaAt(v.s) # {} THEN
    JArr(IF dropEmpty
         THEN SelectSeq(PiecesOf(v.s), LAMBDA piece : piece.s # <<>>)
         ELSE PiecesOf(v.s))
  ELSE IF Trim(v.s) # <<>> THEN JArr(<<JStr(Trim(v.s))>>)
  ELSE JArr(<<>>)

\* C5 as claimed: parseOptions is the documented normalisation, a string
\* with commas giving its pieces, each trimmed.
C5_Claimed == pc = "done" => optOutput = Normalised(optInput, FALSE)

\* C5 amended: as claimed, except that the empty pieces of a comma-separated
\* string are dropped ("a,,b" gives ["a","b"], "," gives []); "a, b, c" gives
\* ["a","b","c"], "solo" gives ["solo"], "" gives [], an array is returned
\* unchanged.
C5_ParseOptions ==
  pc = "done" =>
    /\ optOutput = Normalised(optInput, TRUE)
    /\ optInput.t = "arr" => optOutput = optInput
    /\ optInput = JStr(<<"a", ",", " ", "b", ",", " ", "c">>) =>
         optOutput = JArr(<<JStr(<<"a">>), JStr(<<"b">>), JStr(<<"c">>)>>)
    /\ optInput = JStr(<<"[", Quote, "x", Quote, ",", Quote, "y", Quote, "]">>) =>
         optOutput = JArr(<<JStr(<<"x">>), JStr(<<"y">>)>>)
    /\ optInput = JStr(<<"s", "o", "l", "o">>) =>
         optOutput = JArr(<<JStr(<<"s", "o", "l", "o">>)>>)
    /\ optInput = JStr(<<>>) => optOutput = JArr(<<>>)
    /\ optInput = JStr(<<"a", ",", ",", "a">>) =>
         optOutput = JArr(<<JStr(<<"a">>), JStr(<<"a">>)>>)

C5_Witness ==
  /\ pc = "done"
  /\ optInput = JStr(<<"a", ",", ",", "a">>)
  /\ optOutput = JArr(<<JStr(<<"a">>), JStr(<<"a">>)>>)

\* ---- C6 ----------------------------------------------------------------
ResultsObject(r) == JObj(<<<<"results">>>>, <<r>>)

IsSplitReply ==
  /\ Len(ReplyItems) = 3
  /\ ReplyItems[2] = ToolSegment
  /\ IsTextItem(ReplyItems[1]) /\ HasTextField(ReplyItems[1])
  /\ IsTextItem(ReplyItems[3]) /\ HasTextField(ReplyItems[3])

Seg1 == TextField(ReplyItems[1])
Seg2 == TextField(ReplyItems[3])

\* the Auto-Score handler answered a reply whose two text segments, put
\* together, are the prose p and then the object with the results array r
Delivered(p, r) ==
  /\ p # <<>>
  /\ Seg1 \o Seg2 = p \o Stringify(ResultsObject(r))

\* the segment boundary falls inside a string literal
InsideString(s1) == Cardinality({i \in 1..Len(s1) : s1[i] = Quote}) % 2 = 1

Recovered(r) ==
  res.status = 200 /\ res.key = "results" /\ res.payload = r /\ ~uncaught

IndexInBatch(result, n) ==
  /\ result.t = "obj"
  /\ result.k = <<<<"question_index">>>>
  /\ result.a[1].t = "num"
  /\ result.a[1].n \in 0..(n - 1)

\* C7 as claimed: every 200 Auto-Score response has at most as many results
\* as questions were submitted, each with a question_index of the batch.
C7_Claimed ==
  (pc = "done" /\ endpoint = "auto-score" /\ res.status = 200) =>
    LET n == Len(body.a[1].a)
    IN /\ Len(res.payload.a) <= n
       /\ \A i \in 1..Len(res.payload.a) : IndexInBatch(res.payload.a[i], n)

IsSingleReply ==
  /\ Len(ReplyItems) = 3
  /\ ReplyItems[1] = ToolSegment
  /\ IsTextItem(ReplyItems[2]) /\ HasTextField(ReplyItems[2])

\* C7 amended: the results array of the provider's object is returned as it
\* is, whatever batch was submitted: nothing checks that a question_index is
\* a position of the batch or that the results are no more than the
\* questions, so both hold only when the provider's text respects them.
C7_PassedThrough ==
  (pc = "done" /\ endpoint = "auto-score" /\ IsSingleReply) =>
    \A p \in Proses, r \in ResultArrays :
      (~HasBrace(p) /\ TextField(ReplyItems[2]) = p \o Stringify(ResultsObject(r)))
        => Recovered(r)

\* one question submitted, two results returned, both for position 1
C7_Witness ==
  /\ pc = "done"
  /\ endpoint = "auto-score"
  /\ body = WithQuestions(Batch(1, 0))
  /\ IsSingleReply
  /\ Recovered(JArr(<<IndexResult(1), IndexResult(1)>>))

\* ---- C8 ----------------------------------------------------------------
\* C8: a request makes at most one call to the provider, and exactly one
\* when the key is configured and (for Auto-Score) the questions field is a
\* non-empty array; no outcome of the call leads to a second one.
C8_Claimed ==
  /\ fetchCount <= 1
  /\ InFlight => fetchCount = 1
  /\ (pc = "done" /\ apiKey = JStr(<<"k">>)
      /\ (endpoint = "generate-questions"
          \/ (endpoint = "auto-score" /\ body \in BatchBodies)))
       => fetchCount = 1

\* ---- C9 ----------------------------------------------------------------
StatusDigits(status) ==
  CASE status = 400 -> <<"4", "0", "0">>
    [] status = 401 -> <<"4", "0", "1">>
    [] status = 429 -> <<"4", "2", "9">>
    [] status = 500 -> <<"5", "0", "0">>
    [] status = 529 -> <<"5", "2", "9">>

IsSuffix(t, s) == Len(t) <= Len(s) /\ SubSeq(s, Len(s) - Len(t) + 1, Len(s)) = t

ExpectedField == IF endpoint = "generate-questions" THEN "questions" ELSE "results"

\* the handler got as far as JSON.parse
ParseReached ==
  /\ pc = "done"
  /\ ReplyItems # <<>>
  /\ \A i \in 1..Len(ReplyItems) : IsTextItem(ReplyItems[i]) => HasTextField(ReplyItems[i])
  /\ IF endpoint = "generate-questions" THEN TextItems # <<>>
     ELSE Matches(FullText(ReplyItems, 1))

\* the text handed to JSON.parse
ParsedText ==
  IF endpoint = "generate-questions" THEN CleanText(TextField(TextItems[1]))
  ELSE CleanText(JsonMatch(FullText(ReplyItems, 1)))

\* C10: whatever JSON value the text parses to, the request fails with the
\* 502 invalid-format error unless the value has the expected field and the
\* field is an array; a 200 response always carries that array.
C10_Claimed ==
  /\ (ParseReached /\ JSONParse(ParsedText).ok) =>
       LET v == JSONParse(ParsedText).v
           has == v.t = "obj" /\ \E j \in 1..Len(v.k) : v.k[j] = <<ExpectedField>>
           field == v.a[CHOOSE j \in 1..Len(v.k) : v.k[j] = <<ExpectedField>>]
       IN IF has /\ field.t = "arr"
          THEN res.status = 200 /\ res.key = ExpectedField /\ res.payload = field
          ELSE res.status = 502 /\ res.error = InvalidFormatMessage
  /\ (pc = "done" /\ res.status = 200) => res.payload.t = "arr"

====
